---- MODULE Spec2Model ----
(***************************************************************************)
(* A model of the VISTA campus-tour assistant: TravelPlannerWorkflow       *)
(* (travel_planner.py), GoogleMapsRoutePlanner (route_planner.py) and      *)
(* ImageRecognitionWorkflow (image_recognition_workflow.py).               *)
(*                                                                         *)
(* Python values are tagged records (PyStr, PyList, PyDict, PyNone,        *)
(* PyNum).  A text is a sequence of symbols.  The content handed to        *)
(* json.loads is a text whose symbols are JSON lexemes (punctuation,       *)
(* string literals, bare prose words); the texts of route_planner.py and   *)
(* image_recognition_workflow.py are sequences of characters.              *)
(***************************************************************************)
EXTENDS Integers, Sequences, FiniteSets, TLC

VARIABLES
    t_pc,        \* plan_travel: "idle", "awaiting", "done", "failed"
    t_requests,  \* number of requests.post calls made by call_qianwen_api
    t_response,  \* the api_response handed to extract_destinations
    t_result,    \* what extract_destinations returned or raised
    r_pc,        \* plan_route / parse_route_info: "idle", "awaiting", "parsing", "done", "failed"
    r_locations, \* the locations plan_route was called with
    r_calls,     \* the gmaps.directions calls made, in order
    r_answered,  \* whether gmaps.directions returned an answer
    r_routes,    \* the directions_result the mapping service returned
    r_route,     \* route_data: the route handed to parse_route_info
    r_result,    \* what plan_route / parse_route_info returned or raised
    i_pc,        \* process_image: "idle", "awaiting", "done", "failed"
    i_image,     \* the image file process_image was called on
    i_steps,     \* the steps of process_image entered so far, in order
    i_requests,  \* the requests.post calls made by call_qianwen_api
    i_response,  \* the api_response handed to extract_description
    i_stdout,    \* what extract_description printed
    i_result     \* what process_image returned or raised

t_vars == <<t_pc, t_requests, t_response, t_result>>
r_vars == <<r_pc, r_locations, r_calls, r_answered, r_routes, r_route, r_result>>
i_vars == <<i_pc, i_image, i_steps, i_requests, i_response, i_stdout, i_result>>
vars == <<t_vars, r_vars, i_vars>>

(***************************************************************************)
(* Bounds of the model.                                                    *)
(***************************************************************************)
MaxElems == 2      \* longest destination array the generation service returns
MaxLegs == 2       \* most legs of a route
MaxSteps == 2      \* most steps of a leg
MaxLocs == 4       \* longest location list plan_route is called with
MaxRoutes == 2     \* most routes the mapping service returns
MaxFrags == 3      \* most fragments of a multimodal content list

(***************************************************************************)
(* Python values.                                                          *)
(***************************************************************************)
PyNone == [t |-> "none", s |-> <<>>, keys |-> <<>>, items |-> <<>>, n |-> 0]
PyStr(s) == [t |-> "str", s |-> s, keys |-> <<>>, items |-> <<>>, n |-> 0]
PyNum(n) == [t |-> "num", s |-> <<>>, keys |-> <<>>, items |-> <<>>, n |-> n]
PyList(items) == [t |-> "list", s |-> <<>>, keys |-> <<>>, items |-> items, n |-> 0]
PyDict(keys, items) == [t |-> "dict", s |-> <<>>, keys |-> keys, items |-> items, n |-> 0]

\* bool(v): the truth value `if not v` tests
Truthy(v) ==
    CASE v.t = "none" -> FALSE
      [] v.t = "str" -> v.s # <<>>
      [] v.t = "num" -> v.n # 0
      [] v.t = "list" -> v.items # <<>>
      [] v.t = "dict" -> v.keys # <<>>

\* k in d, for a dict d
HasKey(d, k) == \E i \in 1..Len(d.keys) : d.keys[i] = k

KeyIndex(d, k) == CHOOSE i \in 1..Len(d.keys) : d.keys[i] = k

\* d[k] for a dict d that has k
Lookup(d, k) == d.items[KeyIndex(d, k)]

\* d[k] = v: a repeated key keeps its place and takes the later value
DictSet(d, k, v) ==
    IF HasKey(d, k)
    THEN PyDict(d.keys, [d.items EXCEPT ![KeyIndex(d, k)] = v])
    ELSE PyDict(Append(d.keys, k), Append(d.items, v))

\* Outcomes of an evaluation: a value, or a raised exception.
Ret(v) == [ok |-> TRUE, val |-> v, exc |-> "", arg |-> <<>>]
Raise(e, a) == [ok |-> FALSE, val |-> PyNone, exc |-> e, arg |-> a]

\* v.get(k, default): only a dict has .get
PyGet(v, k, default) ==
    IF v.t # "dict" THEN Raise("AttributeError", <<"get">>)
    ELSE IF HasKey(v, k) THEN Ret(Lookup(v, k))
    ELSE Ret(default)

\* v[0] : the first item of a list, the first symbol of a str, the key 0 of a dict
PyFirst(v) ==
    CASE v.t = "list" -> IF v.items = <<>> THEN Raise("IndexError", <<>>) ELSE Ret(v.items[1])
      [] v.t = "str" -> IF v.s = <<>> THEN Raise("IndexError", <<>>) ELSE Ret(PyStr(<<v.s[1]>>))
      [] v.t = "dict" -> Raise("KeyError", <<"0">>)   \* repr(0)
      [] OTHER -> Raise("TypeError", <<>>)

\* repr(k) of a string key: the key between quotes
Repr(k) == <<"'">> \o k \o <<"'">>

\* v[k] for a string key k: a dict without k raises KeyError(k), a non-dict TypeError
PyItem(v, k) ==
    IF v.t # "dict" THEN Raise("TypeError", <<>>)
    ELSE IF HasKey(v, k) THEN Ret(Lookup(v, k))
    ELSE Raise("KeyError", Repr(k))

(***************************************************************************)
(* JSON lexemes and json.loads.                                            *)
(***************************************************************************)
Punct(c) == [k |-> "p", v |-> <<c>>]
StrLit(s) == [k |-> "s", v |-> s]
Word(w) == [k |-> "w", v |-> <<w>>]

LBracket == Punct("[")
RBracket == Punct("]")
LBrace == Punct("{")
RBrace == Punct("}")
Comma == Punct(",")
Colon == Punct(":")

ParseFail == [ok |-> FALSE, val |-> PyNone, pos |-> 0]
Parsed(v, p) == [ok |-> TRUE, val |-> v, pos |-> p]

RECURSIVE ParseValue(_, _)
RECURSIVE ParseElements(_, _, _)
RECURSIVE ParseMembers(_, _, _)

\* one JSON value starting at toks[i]; pos is the index after it
ParseValue(toks, i) ==
    IF i > Len(toks) THEN ParseFail
    ELSE IF toks[i].k = "s" THEN Parsed(PyStr(toks[i].v), i + 1)
    ELSE IF toks[i] = LBracket THEN
        IF i + 1 <= Len(toks) /\ toks[i + 1] = RBracket
        THEN Parsed(PyList(<<>>), i + 2)
        ELSE ParseElements(toks, i + 1, <<>>)
    ELSE IF toks[i] = LBrace THEN
        IF i + 1 <= Len(toks) /\ toks[i + 1] = RBrace
        THEN Parsed(PyDict(<<>>, <<>>), i + 2)
        ELSE ParseMembers(toks, i + 1, PyDict(<<>>, <<>>))
    ELSE ParseFail

\* value ("," value)* "]"
ParseElements(toks, i, acc) ==
    LET r == ParseValue(toks, i) IN
    IF ~r.ok \/ r.pos > Len(toks) THEN ParseFail
    ELSE IF toks[r.pos] = Comma THEN ParseElements(toks, r.pos + 1, Append(acc, r.val))
    ELSE IF toks[r.pos] = RBracket THEN Parsed(PyList(Append(acc, r.val)), r.pos + 1)
    ELSE ParseFail

\* string ":" value ("," string ":" value)* "}"
ParseMembers(toks, i, acc) ==
    IF i + 1 > Len(toks) \/ toks[i].k # "s" \/ toks[i + 1] # Colon THEN ParseFail
    ELSE LET r == ParseValue(toks, i + 2) IN
        IF ~r.ok \/ r.pos > Len(toks) THEN ParseFail
        ELSE IF toks[r.pos] = Comma
            THEN ParseMembers(toks, r.pos + 1, DictSet(acc, toks[i].v, r.val))
        ELSE IF toks[r.pos] = RBrace
            THEN Parsed(DictSet(acc, toks[i].v, r.val), r.pos + 1)
        ELSE ParseFail

\* json.loads(content): the whole text must be one JSON value
json_loads(content) ==
    IF content.t # "str" THEN Raise("TypeError", <<>>)
    ELSE LET r == ParseValue(content.s, 1) IN
        IF r.ok /\ r.pos = Len(content.s) + 1 THEN Ret(r.val)
        ELSE Raise("JSONDecodeError", <<>>)

\* re.search(r'\[.*\]', content, re.DOTALL).group(0): from the first "[" to the
\* last "]" after it (".*" is greedy and DOTALL lets it cross lines); <<>> is no match
re_search_brackets(s) ==
    LET opens == {i \in 1..Len(s) : s[i] = LBracket}
        first == CHOOSE i \in opens : \A j \in opens : i <= j
        closes == {i \in 1..Len(s) : s[i] = RBracket /\ i > first}
        last == CHOOSE i \in closes : \A j \in closes : j <= i
    IN IF opens = {} THEN <<>>
       ELSE IF closes = {} THEN <<>>
       ELSE SubSeq(s, first, last)

(***************************************************************************)
(* TravelPlannerWorkflow.extract_destinations.                             *)
(***************************************************************************)
K(name) == <<name>>     \* the text of a dict key

Fields ==
    <<K("name"), K("description"), K("recommended_duration"),
      K("best_time_to_visit"), K("highlights")>>

\* lines 139-147: which location of the response supplies `content`
SelectContent(api_response) ==
    IF HasKey(api_response, K("output")) THEN
        LET output == PyGet(api_response, K("output"), PyDict(<<>>, <<>>)) IN
        PyGet(output.val, K("text"), PyStr(<<>>))
    ELSE IF HasKey(api_response, K("response")) THEN
        PyGet(api_response, K("response"), PyStr(<<>>))
    ELSE IF HasKey(api_response, K("choices")) THEN
        LET choices == PyGet(api_response, K("choices"), PyList(<<>>)) IN
        IF Truthy(choices.val)
        THEN LET first == PyFirst(choices.val) IN
             IF first.ok THEN PyGet(first.val, K("text"), PyStr(<<>>)) ELSE first
        ELSE Ret(PyNone)
    ELSE Ret(PyNone)

\* lines 152-162: direct json.loads, then the bracket regex and a second json.loads
ParseContent(content) ==
    LET direct == json_loads(content) IN
    IF direct.ok \/ direct.exc # "JSONDecodeError" THEN direct
    ELSE LET json_match == re_search_brackets(content.s) IN
         IF json_match # <<>> THEN json_loads(PyStr(json_match))
         ELSE Raise("Exception", <<"Could not extract JSON from response">>)

\* what `for data in destinations_data` iterates over
PyIter(v) ==
    CASE v.t = "list" -> Ret(v.items)
      [] v.t = "dict" -> Ret([i \in 1..Len(v.keys) |-> PyStr(v.keys[i])])
      [] v.t = "str" -> Ret([i \in 1..Len(v.s) |-> PyStr(<<v.s[i]>>)])
      [] OTHER -> Raise("TypeError", <<>>)

\* TravelDestination with a missing field defaulted to "" (data.get(key, ""))
TravelDestination_defaults(data) ==
    IF data.t # "dict" THEN Raise("TypeError", <<>>)
    ELSE Ret([name |-> PyGet(data, K("name"), PyStr(<<>>)).val,
              description |-> PyGet(data, K("description"), PyStr(<<>>)).val,
              recommended_duration |-> PyGet(data, K("recommended_duration"), PyStr(<<>>)).val,
              best_time_to_visit |-> PyGet(data, K("best_time_to_visit"), PyStr(<<>>)).val,
              highlights |-> PyGet(data, K("highlights"), PyStr(<<>>)).val])

\* lines 167-173: TravelDestination(name=data["name"], ...), the five lookups in order
TravelDestination(data) ==
    LET bad == {i \in 1..Len(Fields) : ~PyItem(data, Fields[i]).ok}
        firstBad == CHOOSE i \in bad : \A j \in bad : i <= j
    IN IF bad # {} THEN PyItem(data, Fields[firstBad])
       ELSE Ret([name |-> Lookup(data, K("name")),
                 description |-> Lookup(data, K("description")),
                 recommended_duration |-> Lookup(data, K("recommended_duration")),
                 best_time_to_visit |-> Lookup(data, K("best_time_to_visit")),
                 highlights |-> Lookup(data, K("highlights"))])

RECURSIVE ConvertDestinations_dedup(_, _, _)
\* ConvertDestinations skipping a destination already in the list
ConvertDestinations_dedup(items, i, destinations) ==
    IF i > Len(items) THEN Ret(destinations)
    ELSE LET data == items[i]
             bad == {f \in 1..Len(Fields) : ~PyItem(data, Fields[f]).ok}
             firstBad == CHOOSE f \in bad : \A g \in bad : f <= g
             destination ==
                 [name |-> Lookup(data, K("name")),
                  description |-> Lookup(data, K("description")),
                  recommended_duration |-> Lookup(data, K("recommended_duration")),
                  best_time_to_visit |-> Lookup(data, K("best_time_to_visit")),
                  highlights |-> Lookup(data, K("highlights"))]
         IN IF bad # {} THEN PyItem(data, Fields[firstBad])
            ELSE IF \E j \in 1..Len(destinations) : destinations[j] = destination
            THEN ConvertDestinations_dedup(items, i + 1, destinations)
            ELSE ConvertDestinations_dedup(items, i + 1, Append(destinations, destination))

RECURSIVE ConvertDestinations(_, _, _)
\* lines 165-174: the loop appending one destination per element; the first
\* element that raises ends the loop with its exception
ConvertDestinations(items, i, destinations) ==
    IF i > Len(items) THEN Ret(destinations)
    ELSE LET destination == TravelDestination(items[i]) IN
         IF destination.ok
         THEN ConvertDestinations(items, i + 1, Append(destinations, destination.val))
         ELSE destination

\* str(e) of the exception a step raised
ExcText(r) ==
    CASE r.exc = "KeyError" -> r.arg
      [] r.exc = "Exception" -> r.arg
      [] OTHER -> <<r.exc>>

Extracted(destinations, content, data) ==
    [ok |-> TRUE, destinations |-> destinations, exc |-> "", cause |-> "",
     msg |-> <<>>, content |-> content, data |-> data]

\* lines 178-181: every exception is re-raised as Exception("Failed to extract ...")
ExtractFailed(r, content, data) ==
    [ok |-> FALSE, destinations |-> <<>>, exc |-> "Exception", cause |-> r.exc,
     msg |-> <<"Failed to extract destinations from response: ">> \o ExcText(r),
     content |-> content, data |-> data]

extract_destinations(api_response) ==
    LET selected == SelectContent(api_response) IN
    IF ~selected.ok THEN ExtractFailed(selected, PyNone, PyNone)
    ELSE LET content == selected.val IN
    IF ~Truthy(content)
    THEN ExtractFailed(Raise("Exception", <<"No content found in API response">>),
                       content, PyNone)
    ELSE LET parsed == ParseContent(content) IN
    IF ~parsed.ok THEN ExtractFailed(parsed, content, PyNone)
    ELSE LET destinations_data == parsed.val
             elems == PyIter(destinations_data) IN
    IF ~elems.ok THEN ExtractFailed(elems, content, destinations_data)
    ELSE LET converted == ConvertDestinations(elems.val, 1, <<>>) IN
    IF ~converted.ok THEN ExtractFailed(converted, content, destinations_data)
    ELSE Extracted(converted.val, content, destinations_data)

(***************************************************************************)
(* What the generation service can answer.                                 *)
(***************************************************************************)
RECURSIVE json_dumps(_)
RECURSIVE DumpItems(_, _)
RECURSIVE DumpMembers(_, _)

\* the JSON text of a value, as the service writes it
json_dumps(v) ==
    CASE v.t = "str" -> <<StrLit(v.s)>>
      [] v.t = "list" -> <<LBracket>> \o DumpItems(v.items, 1) \o <<RBracket>>
      [] v.t = "dict" -> <<LBrace>> \o DumpMembers(v, 1) \o <<RBrace>>

DumpItems(items, i) ==
    IF i > Len(items) THEN <<>>
    ELSE json_dumps(items[i])
         \o (IF i < Len(items) THEN <<Comma>> ELSE <<>>) \o DumpItems(items, i + 1)

DumpMembers(d, i) ==
    IF i > Len(d.keys) THEN <<>>
    ELSE <<StrLit(d.keys[i]), Colon>> \o json_dumps(d.items[i])
         \o (IF i < Len(d.keys) THEN <<Comma>> ELSE <<>>) \o DumpMembers(d, i + 1)

Txt(w) == PyStr(<<w>>)

DestA ==
    PyDict(Fields, <<Txt("College Hall"), Txt("The oldest building"), Txt("30 minutes"),
                     Txt("anytime"), PyList(<<Txt("Gothic"), Txt("Statue")>>)>>)
DestB ==
    PyDict(Fields, <<Txt("Fisher Library"), Txt("A red brick library"), Txt("20 minutes"),
                     Txt("weekdays"), PyList(<<Txt("Reading room")>>)>>)

\* the dict d without the key k
Without(d, k) ==
    LET keep == {i \in 1..Len(d.keys) : d.keys[i] # k}
        idx(j) == CHOOSE i \in keep : Cardinality({h \in keep : h < i}) = j - 1
    IN PyDict([j \in 1..Cardinality(keep) |-> d.keys[idx(j)]],
              [j \in 1..Cardinality(keep) |-> d.items[idx(j)]])

CompleteElements == {DestA, DestB}
IncompleteElements ==
    {Without(DestA, Fields[i]) : i \in 1..Len(Fields)}
    \cup {Without(Without(DestB, K("description")), K("highlights"))}
Elements == CompleteElements \cup IncompleteElements

SeqsUpTo(S, n) == UNION {[1..m -> S] : m \in 0..n}

Arrays == SeqsUpTo(Elements, MaxElems)
ValidArrays == SeqsUpTo(CompleteElements, MaxElems)

\* prose around the array
Prefixes ==
    {<<>>, <<Word("Here"), Word("are")>>,
     <<Word("See"), LBracket, Word("1"), RBracket, Word("then")>>}
Suffixes ==
    {<<>>, <<Word("Enjoy")>>,
     <<Word("Source"), LBracket, Word("2"), RBracket>>}

Embedded(pre, arr, suf) == PyStr(pre \o json_dumps(PyList(arr)) \o suf)

Contents ==
    {Embedded(pre, arr, suf) : pre \in Prefixes, arr \in Arrays, suf \in Suffixes}
    \cup {PyStr(<<Word("Sorry")>>), PyStr(json_dumps(DestA)), PyStr(json_dumps(Txt("none")))}

Dict1(k, v) == PyDict(<<k>>, <<v>>)

\* the three wrapper shapes
InOutput(c) == Dict1(K("output"), Dict1(K("text"), c))
InResponse(c) == Dict1(K("response"), c)
InChoices(c) == Dict1(K("choices"), PyList(<<Dict1(K("text"), c)>>))

WrapperShapes == {"output.text", "response", "choices[0].text"}
Wrap(shape, c) ==
    CASE shape = "output.text" -> InOutput(c)
      [] shape = "response" -> InResponse(c)
      [] shape = "choices[0].text" -> InChoices(c)

\* a response assembled from what each location holds (Absent: no such key)
Absent == [t |-> "absent", s |-> <<>>, keys |-> <<>>, items |-> <<>>, n |-> 0]

Assemble(o, r, ch) ==
    LET d1 == IF o = Absent THEN PyDict(<<>>, <<>>) ELSE Dict1(K("output"), o)
        d2 == IF r = Absent THEN d1 ELSE DictSet(d1, K("response"), r)
    IN IF ch = Absent THEN d2 ELSE DictSet(d2, K("choices"), ch)

SmallContents == {PyStr(<<>>), PyStr(json_dumps(PyList(<<DestA>>))),
                  PyStr(json_dumps(PyList(<<DestB>>)))}
OutputOptions ==
    {PyDict(<<>>, <<>>)} \cup {Dict1(K("text"), c) : c \in SmallContents}
ResponseOptions == SmallContents
ChoicesOptions ==
    {PyList(<<>>), PyList(<<PyDict(<<>>, <<>>)>>), PyDict(<<>>, <<>>)}
    \cup {PyList(<<Dict1(K("text"), c)>>) : c \in SmallContents}

MixedResponses ==
    {Assemble(o, r, ch) : o \in OutputOptions \cup {Absent},
                          r \in ResponseOptions \cup {Absent},
                          ch \in ChoicesOptions \cup {Absent}}

Responses ==
    MixedResponses \cup {Wrap(shape, c) : shape \in WrapperShapes, c \in Contents}

(***************************************************************************)
(* TravelPlannerWorkflow.plan_travel.                                      *)
(***************************************************************************)
NoResult ==
    [ok |-> FALSE, destinations |-> <<>>, exc |-> "", cause |-> "", msg |-> <<>>,
     content |-> PyNone, data |-> PyNone]

TravelIdle ==
    /\ t_pc = "idle"
    /\ t_requests = 0
    /\ t_response = PyNone
    /\ t_result = NoResult

NoRoute == [legs |-> <<>>]
NoRouteInfo ==
    [start_location |-> <<>>, end_location |-> <<>>, distance |-> <<>>,
     duration |-> <<>>, steps |-> <<>>]
NoRouteResult ==
    [ok |-> FALSE, exc |-> "", msg |-> <<>>, route_info |-> NoRouteInfo,
     maps_url |-> <<>>, raw_data |-> NoRoute]

RouteIdle ==
    /\ r_pc = "idle"
    /\ r_locations = <<>>
    /\ r_calls = <<>>
    /\ r_answered = FALSE
    /\ r_routes = <<>>
    /\ r_route = NoRoute
    /\ r_result = NoRouteResult

NoImage == [exists |-> FALSE, decodable |-> FALSE, mode |-> "", width |-> 0, height |-> 0]
NoDescription == [ok |-> FALSE, val |-> <<>>, exc |-> "", msg |-> <<>>]

ImageIdle ==
    /\ i_pc = "idle"
    /\ i_image = NoImage
    /\ i_steps = <<>>
    /\ i_requests = <<>>
    /\ i_response = PyNone
    /\ i_stdout = <<>>
    /\ i_result = NoDescription

TravelInit == TravelIdle /\ RouteIdle /\ ImageIdle

\* lines 194-200 and 98-104: the prompt is built and the one request is posted
PlanTravelCall ==
    /\ t_pc = "idle"
    /\ t_pc' = "awaiting"
    /\ t_requests' = t_requests + 1
    /\ UNCHANGED <<t_response, t_result, r_vars, i_vars>>

\* PlanTravelApiFails starting the request over
PlanTravelApiFails_retry ==
    /\ t_pc = "awaiting"
    /\ t_pc' = "idle"
    /\ UNCHANGED <<t_requests, t_response, t_result, r_vars, i_vars>>

\* lines 114-122 and 208-210: the request or the decoding of its body fails
PlanTravelApiFails ==
    /\ t_pc = "awaiting"
    /\ t_pc' = "failed"
    /\ t_result' = [NoResult EXCEPT !.exc = "Exception", !.cause = "RequestException",
                                    !.msg = <<"API request failed: ">>]
    /\ UNCHANGED <<t_requests, t_response, r_vars, i_vars>>

\* lines 106-112 and 202-206: the response arrives and the destinations are extracted
PlanTravelApiReturns ==
    /\ t_pc = "awaiting"
    /\ \E api_response \in Responses :
        /\ t_response' = api_response
        /\ t_result' = extract_destinations(api_response)
        /\ t_pc' = IF t_result'.ok THEN "done" ELSE "failed"
    /\ UNCHANGED <<t_requests, r_vars, i_vars>>

TravelNext == PlanTravelCall \/ PlanTravelApiFails \/ PlanTravelApiReturns

TravelSpec == TravelInit /\ [][TravelNext]_vars

(***************************************************************************)
(* Properties of extract_destinations and plan_travel.                     *)
(***************************************************************************)
TravelFinished == t_pc \in {"done", "failed"} /\ t_response.t = "dict"

\* what a location of the response holds; Absent when the path does not exist
LocationValue(api_response, shape) ==
    CASE shape = "output.text" ->
            IF HasKey(api_response, K("output"))
               /\ Lookup(api_response, K("output")).t = "dict"
               /\ HasKey(Lookup(api_response, K("output")), K("text"))
            THEN Lookup(Lookup(api_response, K("output")), K("text")) ELSE Absent
      [] shape = "response" ->
            IF HasKey(api_response, K("response"))
            THEN Lookup(api_response, K("response")) ELSE Absent
      [] shape = "choices[0].text" ->
            IF HasKey(api_response, K("choices"))
               /\ Lookup(api_response, K("choices")).t = "list"
               /\ Lookup(api_response, K("choices")).items # <<>>
               /\ Lookup(api_response, K("choices")).items[1].t = "dict"
               /\ HasKey(Lookup(api_response, K("choices")).items[1], K("text"))
            THEN Lookup(api_response, K("choices")).items[1].items[
                     KeyIndex(Lookup(api_response, K("choices")).items[1], K("text"))]
            ELSE Absent

Priority == <<"output.text", "response", "choices[0].text">>

NonEmptyAt(api_response, i) ==
    LET v == LocationValue(api_response, Priority[i]) IN v # Absent /\ Truthy(v)

NoContentMsg ==
    <<"Failed to extract destinations from response: ", "No content found in API response">>

\* C1: the content parsed is that of the first location, in the order output.text,
\* response, choices[0].text, whose value is non-empty, and the call fails for want of
\* content only when no location holds non-empty content.
C1_FirstNonEmptyLocationUsed ==
    TravelFinished =>
        \A i \in 1..3 :
            (NonEmptyAt(t_response, i) /\ \A j \in 1..(i - 1) : ~NonEmptyAt(t_response, j))
            => /\ t_result.content = LocationValue(t_response, Priority[i])
               /\ t_result.msg # NoContentMsg

\* the destinations an array of complete elements stands for
ExpectedDestinations(arr) ==
    [i \in 1..Len(arr) |->
        [name |-> Lookup(arr[i], K("name")),
         description |-> Lookup(arr[i], K("description")),
         recommended_duration |-> Lookup(arr[i], K("recommended_duration")),
         best_time_to_visit |-> Lookup(arr[i], K("best_time_to_visit")),
         highlights |-> Lookup(arr[i], K("highlights"))]]

\* C2: a response in one of the three wrapper shapes whose content is the JSON text
\* of an array of complete destination objects yields one destination per element,
\* in the array's order, with the five fields of the element; duplicates are kept.
C2_ValidArrayExtractedInOrder ==
    \A shape \in WrapperShapes, arr \in ValidArrays :
        t_response = Wrap(shape, PyStr(json_dumps(PyList(arr))))
        => /\ t_pc = "done"
           /\ t_result.ok
           /\ t_result.destinations = ExpectedDestinations(arr)

\* a duplicated element arrives in the choices[0].text shape and both copies are returned
C2_Witness ==
    /\ t_pc = "done"
    /\ t_response = Wrap("choices[0].text", PyStr(json_dumps(PyList(<<DestA, DestA>>))))
    /\ Len(t_result.destinations) = 2

\* prose that makes the content no JSON value of its own
IsProse(pre, suf) == pre # <<>> \/ suf # <<>>

\* C3: when the content is prose with an embedded JSON array, whatever further "[" or
\* "]" the prose holds before or after it, the data parsed is exactly that array.
C3_EmbeddedArrayParsedExactly ==
    \A shape \in WrapperShapes, pre \in Prefixes, suf \in Suffixes, arr \in Arrays :
        (IsProse(pre, suf) /\ t_response = Wrap(shape, Embedded(pre, arr, suf)))
        => t_result.data = PyList(arr)

\* the fields an element lacks, by their place in Fields
MissingFields(data) == {i \in 1..Len(Fields) : ~HasKey(data, Fields[i])}

IsIncomplete(data) == data.t = "dict" /\ MissingFields(data) # {}

FirstMissingKey(items) ==
    LET bad == {i \in 1..Len(items) : IsIncomplete(items[i])}
        e == CHOOSE i \in bad : \A j \in bad : i <= j
        f == CHOOSE i \in MissingFields(items[e]) : \A j \in MissingFields(items[e]) : i <= j
    IN Fields[f]

\* C4: when an element of the parsed array (a list of objects) lacks a required
\* field, the call fails, the error names the first missing key of the first such
\* element, and no destination is returned.
C4_MissingFieldFailsWholeCall ==
    (/\ TravelFinished
     /\ t_result.data.t = "list"
     /\ \A i \in 1..Len(t_result.data.items) : t_result.data.items[i].t = "dict"
     /\ \E i \in 1..Len(t_result.data.items) : IsIncomplete(t_result.data.items[i]))
    => /\ t_pc = "failed"
       /\ ~t_result.ok
       /\ t_result.destinations = <<>>
       /\ t_result.cause = "KeyError"
       /\ t_result.msg = <<"Failed to extract destinations from response: ">>
                         \o Repr(FirstMissingKey(t_result.data.items))

\* a complete element precedes the incomplete one: its destination is not returned
C4_Witness ==
    /\ t_pc = "failed"
    /\ t_result.cause = "KeyError"
    /\ t_result.data.t = "list"
    /\ Len(t_result.data.items) = 2
    /\ ~IsIncomplete(t_result.data.items[1])
    /\ IsIncomplete(t_result.data.items[2])
    /\ t_result.destinations = <<>>

(***************************************************************************)
(* GoogleMapsRoutePlanner.parse_route_info.  Texts are sequences of        *)
(* characters; distance.value and duration.value are the integers the     *)
(* mapping service reports (metres, seconds).                              *)
(***************************************************************************)
DigitChars == <<"0", "1", "2", "3", "4", "5", "6", "7", "8", "9">>

RECURSIVE Digits(_)
\* str(n) of a natural number
Digits(n) == IF n < 10 THEN <<DigitChars[n + 1]>> ELSE Digits(n \div 10) \o <<DigitChars[(n % 10) + 1]>>

RECURSIVE Pow2Mod125(_)
Pow2Mod125(e) == IF e = 0 THEN 1 ELSE (2 * Pow2Mod125(e - 1)) % 125

RECURSIVE BinaryExponent(_, _)
\* the e with 2^e <= total/1000 < 2^(e+1), for total >= 1000
BinaryExponent(total, e) ==
    IF total < 2000 THEN e ELSE BinaryExponent(total \div 2, e + 1)

\* total/1000 as a double lies below (-1), on (0) or above (1) the quotient: the
\* 53-bit mantissa is total * 2^(52-e) / 1000 rounded to an integer
DoubleError(total) ==
    LET e == BinaryExponent(total, 0)
        frac == ((total % 125) * Pow2Mod125(52 - e - 3)) % 125
    IN IF frac = 0 THEN 0 ELSE IF 2 * frac < 125 THEN -1 ELSE 1

\* the hundredths f"{total/1000:.2f}" prints: the decimal nearest to the double, and
\* the even one when the double is exactly halfway
Hundredths(total) ==
    LET q == total \div 10
        r == total % 10
    IN IF r < 5 THEN q
       ELSE IF r > 5 THEN q + 1
       ELSE IF DoubleError(total) < 0 THEN q
       ELSE IF DoubleError(total) > 0 THEN q + 1
       ELSE IF q % 2 = 0 THEN q ELSE q + 1

\* f"{x:.2f}" given the hundredths of x
Fixed2(h) == Digits(h \div 100) \o <<".">> \o <<DigitChars[((h % 100) \div 10) + 1], DigitChars[(h % 10) + 1]>>

\* FormatDistance with the kilometre form only above 1000 m
FormatDistance_above(total_distance) ==
    IF total_distance > 1000
    THEN Fixed2(Hundredths(total_distance)) \o <<" ", "k", "m">>
    ELSE Digits(total_distance) \o <<" ", "m">>

\* line 130
FormatDistance(total_distance) ==
    IF total_distance >= 1000
    THEN Fixed2(Hundredths(total_distance)) \o <<" ", "k", "m">>
    ELSE Digits(total_distance) \o <<" ", "m">>

\* line 131
FormatDuration(total_duration) ==
    Digits(total_duration \div 60) \o <<" ", "m", "i", "n", " ">>
    \o Digits(total_duration % 60) \o <<" ", "s", "e", "c">>

StartsWithAt(s, old, i) ==
    /\ i + Len(old) - 1 <= Len(s)
    /\ \A j \in 1..Len(old) : s[i + j - 1] = old[j]

RECURSIVE ReplaceFrom(_, _, _, _)
ReplaceFrom(s, old, new, i) ==
    IF i > Len(s) THEN <<>>
    ELSE IF StartsWithAt(s, old, i) THEN new \o ReplaceFrom(s, old, new, i + Len(old))
    ELSE <<s[i]>> \o ReplaceFrom(s, old, new, i + 1)

\* s.replace(old, new) for a non-empty old: the occurrences found left to right
Replace(s, old, new) == ReplaceFrom(s, old, new, 1)

BoldOpen == <<"<", "b", ">">>
BoldClose == <<"<", "/", "b", ">">>
DivOpen ==
    <<"<", "d", "i", "v", " ", "s", "t", "y", "l", "e", "=", "\"", "f", "o", "n", "t",
      "-", "s", "i", "z", "e", ":", "0", ".", "9", "e", "m", "\"", ">">>
DivClose == <<"<", "/", "d", "i", "v", ">">>
Dash == <<" ", "-", " ">>

\* CleanInstruction without the last replacement
CleanInstruction_keepclose(instruction) ==
    Replace(Replace(Replace(instruction, BoldOpen, <<>>), BoldClose, <<>>), DivOpen, Dash)

\* lines 138-141: the four replacements, one after the other
CleanInstruction(instruction) ==
    Replace(Replace(Replace(Replace(instruction, BoldOpen, <<>>), BoldClose, <<>>),
                    DivOpen, Dash),
            DivClose, <<>>)

RECURSIVE SumValues(_, _)
\* lines 126-127: sum(leg[key]['value'] for leg in legs)
SumValues(legs, key) ==
    IF legs = <<>> THEN 0 ELSE Head(legs)[key].value + SumValues(Tail(legs), key)

RECURSIVE CollectSteps(_, _, _, _)
\* lines 134-142: the two nested loops appending to all_steps
CollectSteps(legs, l, k, all_steps) ==
    IF l > Len(legs) THEN all_steps
    ELSE IF k > Len(legs[l].steps) THEN CollectSteps(legs, l + 1, 1, all_steps)
    ELSE CollectSteps(legs, l, k + 1,
                      Append(all_steps, CleanInstruction(legs[l].steps[k].html_instructions)))

ParseFailed(e) == [NoRouteResult EXCEPT !.exc = e, !.msg = <<e>>]

\* lines 121-154; the result keeps the route as raw_data for plan_route
parse_route_info(route_data) ==
    LET legs == route_data.legs
        total_distance == SumValues(legs, "distance")
        total_duration == SumValues(legs, "duration")
        all_steps == CollectSteps(legs, 1, 1, <<>>)
    IN IF legs = <<>> THEN ParseFailed("IndexError")
       ELSE [NoRouteResult EXCEPT
                !.ok = TRUE,
                !.route_info = [start_location |-> legs[1].start_address,
                                end_location |-> legs[Len(legs)].end_address,
                                distance |-> FormatDistance(total_distance),
                                duration |-> FormatDuration(total_duration),
                                steps |-> all_steps],
                !.raw_data = route_data]

(***************************************************************************)
(* GoogleMapsRoutePlanner.calculate_route, get_route_url, plan_route.      *)
(***************************************************************************)
\* TooFewLocations accepting a single location
TooFewLocations_single(locations) == Len(locations) < 1

\* line 78
TooFewLocations(locations) == Len(locations) < 2

\* DirectionsRequest passing every location after the first as a waypoint
DirectionsRequest_through(locations, optimize_waypoints) ==
    [origin |-> locations[1],
     destination |-> locations[Len(locations)],
     waypoints |-> IF Len(locations) > 2 THEN SubSeq(locations, 2, Len(locations))
                   ELSE <<>>,
     optimize_waypoints |-> optimize_waypoints,
     mode |-> "walking",
     units |-> "metric"]

\* lines 82-100: the arguments of the gmaps.directions call
DirectionsRequest(locations, optimize_waypoints) ==
    [origin |-> locations[1],
     destination |-> locations[Len(locations)],
     waypoints |-> IF Len(locations) > 2 THEN SubSeq(locations, 2, Len(locations) - 1)
                   ELSE <<>>,
     optimize_waypoints |-> optimize_waypoints,
     mode |-> "walking",
     units |-> "metric"]

\* ChooseRoute returning the last route of the answer
ChooseRoute_last(directions_result) ==
    IF directions_result = <<>>
    THEN [ok |-> FALSE, route |-> NoRoute, msg |-> <<"No route found">>]
    ELSE [ok |-> TRUE, route |-> directions_result[Len(directions_result)], msg |-> <<>>]

\* lines 102-105: the route calculate_route returns from the service's answer
ChooseRoute(directions_result) ==
    IF directions_result = <<>>
    THEN [ok |-> FALSE, route |-> NoRoute, msg |-> <<"No route found">>]
    ELSE [ok |-> TRUE, route |-> directions_result[1], msg |-> <<>>]

\* line 171
EncodeLocation(location) ==
    Replace(Replace(location, <<" ">>, <<"+">>), <<",">>, <<"%", "2", "C">>)

RECURSIVE JoinEncoded(_, _)
JoinEncoded(locations, i) ==
    IF i > Len(locations) THEN <<>>
    ELSE EncodeLocation(locations[i])
         \o (IF i < Len(locations) THEN <<"/">> ELSE <<>>) \o JoinEncoded(locations, i + 1)

\* lines 166-174
get_route_url(locations) ==
    <<"https://www.google.com/maps/dir/">> \o JoinEncoded(locations, 1)

(***************************************************************************)
(* What the mapping service can answer, and what plan_route is called with.*)
(***************************************************************************)
TurnLeft ==
    BoldOpen \o <<"T", "u", "r", "n", " ", "l", "e", "f", "t">> \o BoldClose
    \o DivOpen \o <<"o", "n", "t", "o", " ", "M", "a", "i", "n", " ", "S", "t">> \o DivClose
OtherMarkup ==
    <<"<", "d", "i", "v", ">", "G", "o">> \o DivClose
    \o <<"<", "w", "b", "r", "/", ">", "<", "B", ">", "o", "n", "<", "/", "B", ">">>

Instructions == {TurnLeft, OtherMarkup}

StepLists ==
    UNION {[1..m -> {[html_instructions |-> ins] : ins \in Instructions}] : m \in 0..MaxSteps}

\* distance.value (metres), duration.value (seconds) and the addresses of a leg
LegMeasures ==
    {[d |-> 500, t |-> 5, from |-> <<"A">>, to |-> <<"B">>],
     [d |-> 499, t |-> 60, from |-> <<"B">>, to |-> <<"C">>],
     [d |-> 1000, t |-> 120, from |-> <<"C">>, to |-> <<"D">>],
     [d |-> 1005, t |-> 59, from |-> <<"D">>, to |-> <<"A">>]}

Leg(m, steps) ==
    [distance |-> [value |-> m.d], duration |-> [value |-> m.t],
     start_address |-> m.from, end_address |-> m.to, steps |-> steps]

FirstMeasure == [d |-> 500, t |-> 5, from |-> <<"A">>, to |-> <<"B">>]

\* legs that differ in their measures, and legs that differ in their steps
MeasuredLegs == {Leg(m, <<>>) : m \in LegMeasures}
SteppedLegs == {Leg(FirstMeasure, st) : st \in StepLists}

Routes ==
    {[legs |-> ls] : ls \in SeqsUpTo(MeasuredLegs, MaxLegs) \cup SeqsUpTo(SteppedLegs, MaxLegs)}

SampleRoutes ==
    {[legs |-> <<>>],
     [legs |-> <<Leg(FirstMeasure, <<[html_instructions |-> TurnLeft]>>)>>],
     [legs |-> <<Leg(FirstMeasure, <<>>),
                 Leg([d |-> 1000, t |-> 120, from |-> <<"C">>, to |-> <<"D">>],
                     <<[html_instructions |-> OtherMarkup]>>)>>]}

DirectionsResults == SeqsUpTo(SampleRoutes, MaxRoutes)

LocationNames == {<<"Q", "u", "a", "d">>, <<"H", "a", "l", "l", ",", " ", "W">>}
LocationLists == SeqsUpTo(LocationNames, MaxLocs)

(***************************************************************************)
(* parse_route_info applied to the routes of Routes.                       *)
(***************************************************************************)
ParseInit ==
    /\ TravelIdle /\ ImageIdle
    /\ r_pc = "parsing"
    /\ r_locations = <<>>
    /\ r_calls = <<>>
    /\ r_answered = FALSE
    /\ r_routes = <<>>
    /\ r_route \in Routes
    /\ r_result = NoRouteResult

ParseRouteInfo ==
    /\ r_pc = "parsing"
    /\ r_result' = parse_route_info(r_route)
    /\ r_pc' = IF r_result'.ok THEN "done" ELSE "failed"
    /\ UNCHANGED <<r_locations, r_calls, r_answered, r_routes, r_route, t_vars, i_vars>>

ParseNext == ParseRouteInfo

ParseSpec == ParseInit /\ [][ParseNext]_vars

(***************************************************************************)
(* plan_route.                                                             *)
(***************************************************************************)
RouteInit == TravelIdle /\ RouteIdle /\ ImageIdle

\* lines 186-190 and 77-100: up to the gmaps.directions call
PlanRouteCall ==
    /\ r_pc = "idle"
    /\ \E locations \in LocationLists :
        /\ r_locations' = locations
        /\ IF TooFewLocations(locations)
           THEN /\ r_pc' = "failed"
                /\ r_calls' = r_calls
                /\ r_result' = [NoRouteResult EXCEPT
                                   !.exc = "Exception",
                                   !.msg = <<"Need at least 2 locations to calculate a route">>]
           ELSE /\ r_pc' = "awaiting"
                /\ r_calls' = Append(r_calls, DirectionsRequest(locations, TRUE))
                /\ r_result' = r_result
    /\ UNCHANGED <<r_answered, r_routes, r_route, t_vars, i_vars>>

\* lines 107-109 and 204-206: gmaps.directions raises
DirectionsRaises ==
    /\ r_pc = "awaiting"
    /\ r_pc' = "failed"
    /\ r_result' = [NoRouteResult EXCEPT !.exc = "ApiError", !.msg = <<"ApiError">>]
    /\ UNCHANGED <<r_locations, r_calls, r_answered, r_routes, r_route, t_vars, i_vars>>

\* lines 102-105 and 192-202: the service answers; the first route is parsed
DirectionsReturns ==
    /\ r_pc = "awaiting"
    /\ \E directions_result \in DirectionsResults :
        LET chosen == ChooseRoute(directions_result)
            parsed == parse_route_info(chosen.route)
        IN /\ r_answered' = TRUE
           /\ r_routes' = directions_result
           /\ r_route' = chosen.route
           /\ r_result' =
                IF ~chosen.ok
                THEN [NoRouteResult EXCEPT !.exc = "Exception", !.msg = chosen.msg]
                ELSE IF ~parsed.ok THEN parsed
                ELSE [parsed EXCEPT !.maps_url = get_route_url(r_locations)]
           /\ r_pc' = IF r_result'.ok THEN "done" ELSE "failed"
    /\ UNCHANGED <<r_locations, r_calls, t_vars, i_vars>>

RouteNext == PlanRouteCall \/ DirectionsRaises \/ DirectionsReturns

RouteSpec == RouteInit /\ [][RouteNext]_vars

(***************************************************************************)
(* Properties of plan_route and parse_route_info.                          *)
(***************************************************************************)
\* C5: plan_route called with fewer than 2 locations fails with the
\* insufficient-locations error and gmaps.directions is never called.
C5_TooFewLocationsNoDirectionsCall ==
    (r_pc \in {"awaiting", "done", "failed"} /\ Len(r_locations) < 2)
    => /\ r_pc = "failed"
       /\ ~r_result.ok
       /\ r_result.msg = <<"Need at least 2 locations to calculate a route">>
       /\ r_calls = <<>>

\* plan_route was called with a single location
C5_Witness ==
    /\ r_pc = "failed"
    /\ Len(r_locations) = 1
    /\ r_calls = <<>>

\* the sum of a measure over the legs, from the last leg to the first
LegTotal(legs, key) ==
    LET f[i \in 0..Len(legs)] == IF i = 0 THEN 0 ELSE f[i - 1] + legs[Len(legs) + 1 - i][key].value
    IN f[Len(legs)]

TwoDecimals(h) ==
    Digits(h \div 100) \o <<".", DigitChars[((h % 100) \div 10) + 1], DigitChars[(h % 10) + 1]>>

\* C7: the distance and duration reported are those of the sums over all legs: the
\* distance in kilometres with exactly two decimals (a nearest hundredth) from
\* 1000 m on and in whole metres below, the duration as "<s div 60> min <s mod 60>
\* sec"; 999 m is "999 m", 1000 m is "1.00 km", 1500 m and 125 s are "1.50 km" and
\* "2 min 5 sec", 500 m is "500 m".
C7_DistanceAndDurationOfAllLegs ==
    r_pc = "done" =>
        LET metres == LegTotal(r_route.legs, "distance")
            seconds == LegTotal(r_route.legs, "duration")
            info == r_result.route_info
        IN /\ metres >= 1000 =>
                \E h \in {metres \div 10, (metres \div 10) + 1} :
                    /\ 10 * h - metres \in -5..5
                    /\ info.distance = TwoDecimals(h) \o <<" ", "k", "m">>
           /\ metres < 1000 => info.distance = Digits(metres) \o <<" ", "m">>
           /\ info.duration = Digits(seconds \div 60) \o <<" ", "m", "i", "n", " ">>
                              \o Digits(seconds % 60) \o <<" ", "s", "e", "c">>
           /\ metres = 999 => info.distance = <<"9", "9", "9", " ", "m">>
           /\ metres = 1000 => info.distance = <<"1", ".", "0", "0", " ", "k", "m">>
           /\ metres = 500 => info.distance = <<"5", "0", "0", " ", "m">>
           /\ metres = 1500 => info.distance = <<"1", ".", "5", "0", " ", "k", "m">>
           /\ seconds = 125 =>
                info.duration = <<"2", " ", "m", "i", "n", " ", "5", " ", "s", "e", "c">>

\* two legs of 500 m, 5 s and 1000 m, 120 s
C7_Witness ==
    /\ r_pc = "done"
    /\ Len(r_route.legs) = 2
    /\ r_route.legs[1].distance.value = 500
    /\ r_route.legs[2].distance.value = 1000
    /\ r_result.route_info.distance = <<"1", ".", "5", "0", " ", "k", "m">>
    /\ r_result.route_info.duration = <<"2", " ", "m", "i", "n", " ", "5", " ", "s", "e", "c">>

RECURSIVE ScanMarkup(_, _)
\* one pass over the instruction: each fixed token is dropped (the styled div opening
\* becomes " - "), every other character is kept
ScanMarkup(s, i) ==
    IF i > Len(s) THEN <<>>
    ELSE IF StartsWithAt(s, BoldOpen, i) THEN ScanMarkup(s, i + Len(BoldOpen))
    ELSE IF StartsWithAt(s, BoldClose, i) THEN ScanMarkup(s, i + Len(BoldClose))
    ELSE IF StartsWithAt(s, DivOpen, i) THEN Dash \o ScanMarkup(s, i + Len(DivOpen))
    ELSE IF StartsWithAt(s, DivClose, i) THEN ScanMarkup(s, i + Len(DivClose))
    ELSE <<s[i]>> \o ScanMarkup(s, i + 1)

RECURSIVE FlatInstructions(_)
\* the instructions of every step of every leg, leg by leg
FlatInstructions(legs) ==
    IF legs = <<>> THEN <<>>
    ELSE [k \in 1..Len(Head(legs).steps) |-> Head(legs).steps[k].html_instructions]
         \o FlatInstructions(Tail(legs))

TurnLeftClean ==
    <<"T", "u", "r", "n", " ", "l", "e", "f", "t", " ", "-", " ",
      "o", "n", "t", "o", " ", "M", "a", "i", "n", " ", "S", "t">>
OtherMarkupClean ==
    <<"<", "d", "i", "v", ">", "G", "o",
      "<", "w", "b", "r", "/", ">", "<", "B", ">", "o", "n", "<", "/", "B", ">">>

\* C10: the steps returned are the instructions of every step of every leg, in leg
\* order then step order, each with <b>, </b> and </div> deleted and the styled div
\* opening replaced by " - "; other markup is kept as it is.
C10_StepsCleanedInOrder ==
    r_pc = "done" =>
        LET flat == FlatInstructions(r_route.legs)
            steps == r_result.route_info.steps
        IN /\ Len(steps) = Len(flat)
           /\ \A i \in 1..Len(flat) :
                /\ steps[i] = ScanMarkup(flat[i], 1)
                /\ flat[i] = TurnLeft => steps[i] = TurnLeftClean
                /\ flat[i] = OtherMarkup => steps[i] = OtherMarkupClean

\* two legs with two steps each; the third step overall is the "Turn left" one
C10_Witness ==
    /\ r_pc = "done"
    /\ Len(r_route.legs) = 2
    /\ Len(r_route.legs[1].steps) = 2
    /\ Len(r_route.legs[2].steps) = 2
    /\ r_route.legs[1].steps[1].html_instructions = OtherMarkup
    /\ r_route.legs[2].steps[1].html_instructions = TurnLeft
    /\ r_result.route_info.steps[3] = TurnLeftClean

(***************************************************************************)
(* ImageRecognitionWorkflow.  Texts are sequences of characters.           *)
(***************************************************************************)
MaxSide == 1024     \* max_size of preprocess_image

\* img.thumbnail(max_size): the size that fits in max_size, aspect ratio kept
ThumbnailSize(width, height) ==
    IF width <= MaxSide /\ height <= MaxSide THEN <<width, height>>
    ELSE IF width >= height THEN <<MaxSide, (height * MaxSide) \div width>>
    ELSE <<(width * MaxSide) \div height, MaxSide>>

\* preprocess_image swallowing the failure and returning an empty image
preprocess_image_swallow(image) ==
    IF ~image.exists \/ ~image.decodable
    THEN [ok |-> TRUE, val |-> NoImage, exc |-> "", msg |-> <<>>]
    ELSE [ok |-> TRUE,
          val |-> [image EXCEPT !.mode = "RGB",
                                !.width = ThumbnailSize(image.width, image.height)[1],
                                !.height = ThumbnailSize(image.width, image.height)[2]],
          exc |-> "", msg |-> <<>>]

\* lines 52-69: open, convert to RGB, thumbnail, save as JPEG, base64; any
\* exception becomes Exception("Error preprocessing image: ...")
preprocess_image(image) ==
    IF ~image.exists \/ ~image.decodable
    THEN [ok |-> FALSE, val |-> NoImage, exc |-> "Exception",
          msg |-> <<"Error preprocessing image: ">>]
    ELSE [ok |-> TRUE,
          val |-> [image EXCEPT !.mode = "RGB",
                                !.width = ThumbnailSize(image.width, image.height)[1],
                                !.height = ThumbnailSize(image.width, image.height)[2]],
          exc |-> "", msg |-> <<>>]

Whitespace == {" ", "\n", "\t"}

RECURSIVE LStrip(_)
LStrip(s) == IF s # <<>> /\ Head(s) \in Whitespace THEN LStrip(Tail(s)) ELSE s

RECURSIVE RStrip(_)
RStrip(s) ==
    IF s # <<>> /\ s[Len(s)] \in Whitespace THEN RStrip(SubSeq(s, 1, Len(s) - 1)) ELSE s

\* content.strip(): only a str has .strip
PyStrip(v) ==
    IF v.t # "str" THEN Raise("AttributeError", <<"strip">>)
    ELSE Ret(PyStr(RStrip(LStrip(v.s))))

RECURSIVE JoinTexts(_, _, _)
JoinTexts(sep, values, i) ==
    IF i > Len(values) THEN <<>>
    ELSE values[i].s \o (IF i < Len(values) THEN sep ELSE <<>>) \o JoinTexts(sep, values, i + 1)

\* sep.join(values): every value must be a str
PyJoin(sep, values) ==
    IF \E i \in 1..Len(values) : values[i].t # "str" THEN Raise("TypeError", <<>>)
    ELSE Ret(PyStr(JoinTexts(sep, values, 1)))

RECURSIVE TextContents_objects(_, _, _)
\* TextContents without the branch for bare strings
TextContents_objects(content, i, text_contents) ==
    IF i > Len(content) THEN text_contents
    ELSE IF content[i].t = "dict" /\ HasKey(content[i], K("text"))
        THEN TextContents_objects(content, i + 1,
                                  Append(text_contents, Lookup(content[i], K("text"))))
    ELSE TextContents_objects(content, i + 1, text_contents)

RECURSIVE TextContents(_, _, _)
\* lines 201-206: the loop collecting item["text"] or the item itself
TextContents(content, i, text_contents) ==
    IF i > Len(content) THEN text_contents
    ELSE IF content[i].t = "dict" /\ HasKey(content[i], K("text"))
        THEN TextContents(content, i + 1, Append(text_contents, Lookup(content[i], K("text"))))
    ELSE IF content[i].t = "str"
        THEN TextContents(content, i + 1, Append(text_contents, content[i]))
    ELSE TextContents(content, i + 1, text_contents)

\* lines 189-190
CheckChoices(choices) ==
    IF ~Truthy(choices) THEN Raise("Exception", <<"No choices found in API response">>)
    ELSE Ret(choices)

\* CheckContent without the check
CheckContent_unchecked(content) == Ret(content)

\* lines 195-196
CheckContent(content) ==
    IF ~Truthy(content) THEN Raise("Exception", <<"No content found in API response">>)
    ELSE Ret(content)

\* lines 199-209
DescriptionOf(content) ==
    IF content.t = "list"
    THEN LET joined == PyJoin(<<" ">>, TextContents(content.items, 1, <<>>)) IN
         IF joined.ok THEN PyStrip(joined.val) ELSE joined
    ELSE PyStrip(content)

\* lines 186-209: the body of the try block
ExtractBody(api_response) ==
    LET output == PyGet(api_response, K("output"), PyDict(<<>>, <<>>)) IN
    IF ~output.ok THEN output
    ELSE LET choices == PyGet(output.val, K("choices"), PyList(<<>>)) IN
    IF ~choices.ok THEN choices
    ELSE IF ~CheckChoices(choices.val).ok THEN CheckChoices(choices.val)
    ELSE LET first == PyFirst(choices.val) IN
    IF ~first.ok THEN first
    ELSE LET message == PyGet(first.val, K("message"), PyDict(<<>>, <<>>)) IN
    IF ~message.ok THEN message
    ELSE LET content == PyGet(message.val, K("content"), PyStr(<<>>)) IN
    IF ~content.ok THEN content
    ELSE IF ~CheckContent(content.val).ok THEN CheckContent(content.val)
    ELSE DescriptionOf(content.val)

\* lines 184-216: KeyError and IndexError are re-raised without printing, every
\* other exception after printing the raw response
extract_description(api_response) ==
    LET body == ExtractBody(api_response) IN
    IF body.ok
    THEN [ok |-> TRUE, val |-> body.val.s, exc |-> "", msg |-> <<>>, printed |-> <<>>]
    ELSE IF body.exc \in {"KeyError", "IndexError"}
    THEN [ok |-> FALSE, val |-> <<>>, exc |-> "Exception",
          msg |-> <<"Failed to extract description from response: ">> \o ExcText(body),
          printed |-> <<>>]
    ELSE [ok |-> FALSE, val |-> <<>>, exc |-> "Exception",
          msg |-> <<"Unexpected error processing API response: ">> \o ExcText(body),
          printed |-> <<"Raw API response:">>]

(***************************************************************************)
(* The images process_image is called on and what the service can answer.  *)
(***************************************************************************)
ImageFiles ==
    {NoImage,
     [exists |-> TRUE, decodable |-> FALSE, mode |-> "", width |-> 0, height |-> 0],
     [exists |-> TRUE, decodable |-> TRUE, mode |-> "RGB", width |-> 800, height |-> 600],
     [exists |-> TRUE, decodable |-> TRUE, mode |-> "RGBA", width |-> 2048, height |-> 1536]}

PlainTexts ==
    {<<>>, <<" ">>, <<"A">>, <<"B">>, <<"C">>, <<" ", "A", " ", "B", "\n">>}

FragmentTexts == {<<>>, <<"A">>, <<"B">>, <<"C">>, <<" ", "A", " ">>}

Fragments ==
    {PyStr(s) : s \in FragmentTexts}
    \cup {Dict1(K("text"), PyStr(s)) : s \in FragmentTexts}
    \cup {Dict1(K("image"), PyStr(<<"u">>)), PyNum(5), Dict1(K("text"), PyNum(5))}

ContentValues ==
    {PyStr(s) : s \in PlainTexts}
    \cup {PyList(fr) : fr \in SeqsUpTo(Fragments, MaxFrags)}
    \cup {PyNone, PyNum(5), Dict1(K("text"), PyStr(<<"A">>))}

MessageValues ==
    {PyNone, PyDict(<<>>, <<>>), PyStr(<<"A">>)}
    \cup {Dict1(K("content"), c) : c \in ContentValues}

ChoicesValues ==
    {PyNone, PyList(<<>>), PyDict(<<>>, <<>>), Dict1(K("a"), PyStr(<<"A">>)), PyStr(<<"A">>),
     PyList(<<PyStr(<<"A">>)>>), PyList(<<PyDict(<<>>, <<>>)>>)}
    \cup {PyList(<<Dict1(K("message"), m)>>) : m \in MessageValues}

OutputValues ==
    {PyNone, PyDict(<<>>, <<>>)} \cup {Dict1(K("choices"), ch) : ch \in ChoicesValues}

ImageResponses == {PyDict(<<>>, <<>>)} \cup {Dict1(K("output"), o) : o \in OutputValues}

(***************************************************************************)
(* process_image.                                                          *)
(***************************************************************************)
ImageInit == TravelIdle /\ RouteIdle /\ ImageIdle

\* lines 229-240 and 158-164: the image is preprocessed, the prompt built and the
\* one request posted; a failure of preprocess_image ends the call
ProcessImageCall ==
    /\ i_pc = "idle"
    /\ \E image \in ImageFiles :
        LET image_base64 == preprocess_image(image) IN
        /\ i_image' = image
        /\ IF ~image_base64.ok
           THEN /\ i_pc' = "failed"
                /\ i_steps' = <<"preprocess">>
                /\ i_requests' = i_requests
                /\ i_result' = [NoDescription EXCEPT !.exc = image_base64.exc,
                                                     !.msg = image_base64.msg]
           ELSE /\ i_pc' = "awaiting"
                /\ i_steps' = <<"preprocess", "prompt", "call">>
                /\ i_requests' = Append(i_requests, [model |-> "qwen-vl-max",
                                                     image |-> image_base64.val])
                /\ i_result' = i_result
    /\ UNCHANGED <<i_response, i_stdout, t_vars, r_vars>>

\* lines 169-172 and 248-250: the request or the decoding of its body fails
ImageApiFails ==
    /\ i_pc = "awaiting"
    /\ i_pc' = "failed"
    /\ i_result' = [NoDescription EXCEPT !.exc = "Exception",
                                         !.msg = <<"API request failed: ">>]
    /\ UNCHANGED <<i_image, i_steps, i_requests, i_response, i_stdout, t_vars, r_vars>>

\* lines 166-167 and 242-246: the response arrives and the description is extracted
ImageApiReturns ==
    /\ i_pc = "awaiting"
    /\ \E api_response \in ImageResponses :
        LET description == extract_description(api_response) IN
        /\ i_response' = api_response
        /\ i_steps' = Append(i_steps, "extract")
        /\ i_stdout' = i_stdout \o description.printed
        /\ i_result' = [ok |-> description.ok, val |-> description.val,
                        exc |-> description.exc, msg |-> description.msg]
        /\ i_pc' = IF description.ok THEN "done" ELSE "failed"
    /\ UNCHANGED <<i_image, i_requests, t_vars, r_vars>>

ImageNext == ProcessImageCall \/ ImageApiFails \/ ImageApiReturns

ImageSpec == ImageInit /\ [][ImageNext]_vars

(***************************************************************************)
(* Properties of process_image and extract_description.                    *)
(***************************************************************************)
StepOrder == <<"preprocess", "prompt", "call", "extract">>

Preprocessable(image) == image.exists /\ image.decodable

\* C6: the steps of process_image are entered in the order preprocess, prompt,
\* call, extract, and after a failure of the preprocessing the call has failed with
\* no request to the generation service.
C6_PreprocessFailureBeforeRequest ==
    /\ \E n \in 0..Len(StepOrder) : i_steps = SubSeq(StepOrder, 1, n)
    /\ Len(i_requests) > 0 => (Len(i_steps) >= 3 /\ Preprocessable(i_image))
    /\ (i_pc # "idle" /\ ~Preprocessable(i_image))
       => /\ i_pc = "failed"
          /\ i_steps = <<"preprocess">>
          /\ i_requests = <<>>
          /\ i_result.msg = <<"Error preprocessing image: ">>

\* process_image was called on a path with no file
C6_Witness ==
    /\ i_pc = "failed"
    /\ ~i_image.exists
    /\ i_steps = <<"preprocess">>
    /\ i_requests = <<>>

ImageFinished == i_pc \in {"done", "failed"} /\ i_response.t = "dict"

\* api_response["output"], or {} as .get defaults it
OutputOf(api_response) ==
    IF HasKey(api_response, K("output")) THEN Lookup(api_response, K("output"))
    ELSE PyDict(<<>>, <<>>)

\* output.choices is missing, null or an empty list
LacksChoices(api_response) ==
    /\ OutputOf(api_response).t = "dict"
    /\ \/ ~HasKey(OutputOf(api_response), K("choices"))
       \/ Lookup(OutputOf(api_response), K("choices")) \in {PyList(<<>>), PyNone}

\* output.choices[0], when choices is a non-empty list of objects
HasFirstChoice(api_response) ==
    /\ OutputOf(api_response).t = "dict"
    /\ HasKey(OutputOf(api_response), K("choices"))
    /\ Lookup(OutputOf(api_response), K("choices")).t = "list"
    /\ Lookup(OutputOf(api_response), K("choices")).items # <<>>
    /\ Lookup(OutputOf(api_response), K("choices")).items[1].t = "dict"

FirstChoice(api_response) == Lookup(OutputOf(api_response), K("choices")).items[1]

\* the first choice has no message, or a message (an object) without content, or
\* with null, an empty string or an empty list as content
LacksContent(api_response) ==
    /\ HasFirstChoice(api_response)
    /\ \/ ~HasKey(FirstChoice(api_response), K("message"))
       \/ /\ Lookup(FirstChoice(api_response), K("message")).t = "dict"
          /\ \/ ~HasKey(Lookup(FirstChoice(api_response), K("message")), K("content"))
             \/ Lookup(Lookup(FirstChoice(api_response), K("message")), K("content"))
                    \in {PyStr(<<>>), PyList(<<>>), PyNone}

\* output.choices[0].message.content, when that path exists
HasContent(api_response) ==
    /\ HasFirstChoice(api_response)
    /\ HasKey(FirstChoice(api_response), K("message"))
    /\ Lookup(FirstChoice(api_response), K("message")).t = "dict"
    /\ HasKey(Lookup(FirstChoice(api_response), K("message")), K("content"))

ContentOf(api_response) ==
    Lookup(Lookup(FirstChoice(api_response), K("message")), K("content"))

IsTextFragment(f) ==
    \/ f.t = "str"
    \/ f.t = "dict" /\ HasKey(f, K("text")) /\ Lookup(f, K("text")).t = "str"

FragmentText(f) == IF f.t = "str" THEN f.s ELSE Lookup(f, K("text")).s

\* the fragments' texts in list order, one space between consecutive ones
SpaceJoined(frags) ==
    LET f[i \in 1..Len(frags)] ==
            IF i = 1 THEN FragmentText(frags[1])
            ELSE f[i - 1] \o <<" ">> \o FragmentText(frags[i])
    IN IF frags = <<>> THEN <<>> ELSE f[Len(frags)]

\* s without its leading and trailing whitespace
Trimmed(s) ==
    LET inked == {i \in 1..Len(s) : s[i] \notin Whitespace}
        lo == CHOOSE i \in inked : \A j \in inked : i <= j
        hi == CHOOSE i \in inked : \A j \in inked : j <= i
    IN IF inked = {} THEN <<>> ELSE SubSeq(s, lo, hi)

IsFragmentList(c) ==
    c.t = "list" /\ c.items # <<>> /\ \A i \in 1..Len(c.items) : IsTextFragment(c.items[i])

IsPlainText(c) == c.t = "str" /\ c.s # <<>>

ExampleFragments ==
    <<Dict1(K("text"), PyStr(<<"A">>)), PyStr(<<"B">>), Dict1(K("text"), PyStr(<<"C">>))>>

\* C8 as stated: a list of fragments gives the fragments' texts joined with single
\* spaces, a plain string gives that string.
C8_JoinedOrSameString ==
    (ImageFinished /\ HasContent(i_response)) =>
        /\ IsFragmentList(ContentOf(i_response))
           => (i_pc = "done" /\ i_result.val = SpaceJoined(ContentOf(i_response).items))
        /\ IsPlainText(ContentOf(i_response))
           => (i_pc = "done" /\ i_result.val = ContentOf(i_response).s)

\* C8 amended: a non-empty list of fragments gives the fragments' texts joined with
\* single spaces, a non-empty plain string gives that string, in both cases with the
\* leading and trailing whitespace of the whole removed; [{"text":"A"}, "B",
\* {"text":"C"}] gives "A B C".
C8_JoinedOrSameStringStripped ==
    (ImageFinished /\ HasContent(i_response)) =>
        /\ IsFragmentList(ContentOf(i_response))
           => /\ i_pc = "done"
              /\ i_result.val = Trimmed(SpaceJoined(ContentOf(i_response).items))
        /\ IsPlainText(ContentOf(i_response))
           => (i_pc = "done" /\ i_result.val = Trimmed(ContentOf(i_response).s))
        /\ ContentOf(i_response) = PyList(ExampleFragments)
           => i_result.val = <<"A", " ", "B", " ", "C">>

C8_Witness ==
    /\ i_pc = "done"
    /\ HasContent(i_response)
    /\ ContentOf(i_response) = PyList(ExampleFragments)
    /\ i_result.val = <<"A", " ", "B", " ", "C">>

\* C9: a response without output.choices (missing or empty), or whose first choice's
\* message has no content (missing or empty), makes extract_description fail with
\* the empty-response error and return no description.
C9_EmptyResponseFails ==
    ImageFinished =>
        /\ LacksChoices(i_response)
           => /\ i_pc = "failed"
              /\ ~i_result.ok
              /\ i_result.val = <<>>
              /\ i_result.msg = <<"Unexpected error processing API response: ",
                                  "No choices found in API response">>
        /\ LacksContent(i_response)
           => /\ i_pc = "failed"
              /\ ~i_result.ok
              /\ i_result.val = <<>>
              /\ i_result.msg = <<"Unexpected error processing API response: ",
                                  "No content found in API response">>

\* the message is there and its content is the empty string
C9_Witness ==
    /\ i_pc = "failed"
    /\ HasContent(i_response)
    /\ ContentOf(i_response) = PyStr(<<>>)
    /\ i_result.msg = <<"Unexpected error processing API response: ",
                        "No content found in API response">>
(***************************************************************************)
(* Properties of calculate_route and plan_route: the service's answer.     *)
(***************************************************************************)
\* the addresses and the number of steps of a route, read off its legs
RouteStart(route) == route.legs[1].start_address
RouteEnd(route) == route.legs[Len(route.legs)].end_address
RECURSIVE StepCount(_, _)
StepCount(legs, i) ==
    IF i > Len(legs) THEN 0 ELSE Len(legs[i].steps) + StepCount(legs, i + 1)

\* C11: when gmaps.directions returns an empty list of routes, plan_route
\* fails with "No route found" and produces no result; when it returns one
\* or more routes, the first route is the one handed to parse_route_info,
\* and a result carries that route, unmodified, as raw_data and the route
\* information of that route.
C11_FirstRouteOrNoRouteFound ==
    r_answered =>
        IF r_routes = <<>>
        THEN /\ r_pc = "failed"
             /\ ~r_result.ok
             /\ r_result.msg = <<"No route found">>
             /\ r_result.route_info = NoRouteInfo
             /\ r_result.raw_data = NoRoute
        ELSE /\ r_route = r_routes[1]
             /\ r_pc = "done" =>
                    /\ r_result.ok
                    /\ r_result.raw_data = r_routes[1]
                    /\ r_result.route_info.start_location = RouteStart(r_routes[1])
                    /\ r_result.route_info.end_location = RouteEnd(r_routes[1])
                    /\ Len(r_result.route_info.steps) = StepCount(r_routes[1].legs, 1)

\* the service returned two different routes and plan_route returned the first
C11_Witness ==
    /\ r_answered
    /\ r_pc = "done"
    /\ Len(r_routes) = 2
    /\ r_routes[1] # r_routes[2]
    /\ r_routes[2].legs # <<>>
    /\ RouteEnd(r_routes[1]) # RouteEnd(r_routes[2])
    /\ r_result.raw_data = r_routes[1]

\* the one gmaps.directions call plan_route made for r_locations
RequestMatchesLocations ==
    LET n == Len(r_locations)
        call == r_calls[1]
    IN /\ Len(r_calls) = 1
       /\ call.origin = r_locations[1]
       /\ call.destination = r_locations[n]
       /\ Len(call.waypoints) = n - 2
       /\ \A i \in 1..(n - 2) : call.waypoints[i] = r_locations[i + 1]
       /\ call.mode = "walking"
       /\ call.units = "metric"

\* C12: for a list of n >= 2 locations the gmaps.directions request has the
\* first location as origin, the last as destination and exactly the
\* locations at positions 2..n-1, in their original order, as waypoints
\* (none when n = 2), with mode walking and units metric; the caller's
\* list stays as it was passed.
C12_EndpointsAndWaypointsInOrder ==
    /\ []((r_pc # "idle" /\ Len(r_locations) >= 2) => RequestMatchesLocations)
    /\ [][r_pc # "idle" => r_locations' = r_locations]_vars

\* four locations whose two waypoints differ; the answer has arrived
C12_Witness ==
    /\ r_pc = "done"
    /\ Len(r_locations) = 4
    /\ r_locations[2] # r_locations[3]
    /\ r_calls[1].waypoints = <<r_locations[2], r_locations[3]>>

(***************************************************************************)
(* One invocation of any of the three operations.  The workflows share no  *)
(* state; the operation invoked is the one that leaves its idle state.     *)
(***************************************************************************)
WorkflowInit == TravelIdle /\ RouteIdle /\ ImageIdle

PlanTravel == RouteIdle /\ ImageIdle /\ TravelNext
PlanRoute == TravelIdle /\ ImageIdle /\ RouteNext
ProcessImage == TravelIdle /\ RouteIdle /\ ImageNext

WorkflowNext == PlanTravel \/ PlanRoute \/ ProcessImage

WorkflowSpec == WorkflowInit /\ [][WorkflowNext]_vars

\* the operation's request was made and ended without an answer
TravelRequestFailed == t_requests > 0 /\ t_pc # "awaiting" /\ t_response = PyNone
RouteRequestFailed == r_calls # <<>> /\ r_pc # "awaiting" /\ ~r_answered
ImageRequestFailed == i_requests # <<>> /\ i_pc # "awaiting" /\ i_response = PyNone

\* C13: an invocation of plan_travel, plan_route or process_image issues at
\* most one request to its external service; once the request has failed the
\* operation has failed, with exactly that one request made and no result,
\* and no further request is ever issued by a finished operation.
C13_OneRequestNeverResent ==
    /\ [](/\ t_requests <= 1
          /\ Len(r_calls) <= 1
          /\ Len(i_requests) <= 1
          /\ TravelRequestFailed =>
                /\ t_pc = "failed" /\ t_requests = 1
                /\ ~t_result.ok /\ t_result.destinations = <<>>
          /\ RouteRequestFailed =>
                /\ r_pc = "failed" /\ Len(r_calls) = 1
                /\ ~r_result.ok /\ r_result.route_info = NoRouteInfo
                /\ r_result.maps_url = <<>>
          /\ ImageRequestFailed =>
                /\ i_pc = "failed" /\ Len(i_requests) = 1
                /\ ~i_result.ok /\ i_result.val = <<>>)
    /\ [][/\ t_pc \in {"done", "failed"} => (t_pc' = t_pc /\ t_requests' = t_requests)
          /\ r_pc \in {"done", "failed"} => (r_pc' = r_pc /\ r_calls' = r_calls)
          /\ i_pc \in {"done", "failed"} => (i_pc' = i_pc /\ i_requests' = i_requests)]_vars

\* the request of plan_travel failed after it was sent once
C13_Witness ==
    /\ TravelRequestFailed
    /\ t_pc = "failed"
    /\ t_requests = 1
    /\ t_result.cause = "RequestException"

(***************************************************************************)
(* Properties of extract_description: diagnostics and the description.     *)
(***************************************************************************)
\* extract_description raised on a response that is neither without choices nor
\* without content: the response deviates in structure
ShapeFailure ==
    /\ ImageFinished
    /\ i_pc = "failed"
    /\ ~LacksChoices(i_response)
    /\ ~LacksContent(i_response)

\* C14: whenever a structural deviation of the response makes
\* extract_description fail (a choices or message value of an unexpected
\* type included, where the lookup raises a key or index error), the raw
\* response has been printed by the time the error reaches the caller.
C14_RawResponseEmittedBeforeFailure ==
    ShapeFailure => i_stdout = <<"Raw API response:">>

\* C15: whenever extract_description returns normally the description is a
\* non-empty text; content that carries no text (a whitespace-only string,
\* a fragment list without a string or an object with a text field) makes
\* it fail and never yields an empty description.
C15_ReturnedDescriptionNonEmpty ==
    (ImageFinished /\ i_pc = "done") => (i_result.ok /\ i_result.val # <<>>)
====
